---------------------------- MODULE Spec2Model ----------------------------
(***************************************************************************)
(* Pandemic simulation engine: the disease/outbreak engine                 *)
(* (pandemic/Disease.ts), the per-player turn machine (Player, latest      *)
(* revision at the head of unnamed/part_012), the card piles               *)
(* (pandemic/Stack.ts, pandemic/Card.ts) and the match controller          *)
(* (ConcreteGame, second half of pandemic/Game.ts).                        *)
(*                                                                         *)
(* Every handler is a function from a world record (all mutable objects    *)
(* of one match) to the world it leaves behind; an action applies one      *)
(* handler to the current variables and stores the result.  A handler      *)
(* that throws keeps the mutations it made before the throw.               *)
(***************************************************************************)
EXTENDS Integers, Sequences, FiniteSets, TLC

\* ---------------------------------------------------------------- bounds
\* Number of cities on the board (one player card and one infection card
\* per city, as in the game data).
NumCities == 14
\* Deepest nesting of outbreakAt the engine's call stack can hold before the
\* run time raises its stack-overflow RangeError.
MaxCascadeDepth == 8
\* Number of direct calls of the DiseaseManager API explored after start().
MaxCalls == 3
\* Number of operations invoked on a player past the stage interface.
MaxOffStage == 1
\* Number of city cards in the player deck (card c names city c).
NumPlayerCards == 12
\* Number of epidemic cards in the epidemic pile the constructor loads.
NumEpidemicCards == 6

\* ------------------------------------------------------ program constants
NUM_DISEASE_CUBES_COLOUR == 24
MAX_ACTIONS_PER_TURN == 4
MaxCardsInHand == 7
MaxDrawsPerTurn == 2
MaxCubesPerCity == 3
MaxOutbreaks == 8
SetupTake == 3

Cities == 1..NumCities
\* players are constructed at "atalanta"
StartCity == 1

DiseaseTypes == {"red", "yellow", "blue", "black"}
diseaseTypeOrder == <<"red", "yellow", "blue", "black">>
infectionRateSequence == <<2, 2, 2, 3, 3, 4, 4>>

\* the game data gives every city card one colour; here four cities a colour
CardColour(c) == diseaseTypeOrder[(((c - 1) \div 4) % 4) + 1]

\* the board: a ring, each city listing its predecessor then its successor
Neighbours(c) ==
  << IF c = 1 THEN NumCities ELSE c - 1, IF c = NumCities THEN 1 ELSE c + 1 >>

areCitiesNeighbours(c1, c2) == \E i \in 1..Len(Neighbours(c1)) : Neighbours(c1)[i] = c2

\* ------------------------------------------------------------------ cards
\* player card c and infection card c name city c; epidemic cards are
\* numbered above every city
EpidemicCards == { NumCities + k : k \in 1..NumEpidemicCards }
IsEpidemic(card) == card > NumCities

Reverse(s) == [ i \in 1..Len(s) |-> s[Len(s) + 1 - i] ]
SeqToSet(s) == { s[i] : i \in 1..Len(s) }

\* Stack.shuffle: a random permutation; the model explores two of them
ShuffleKinds == {"keep", "reverse"}
shuffle(s, kind) == IF kind = "keep" THEN s ELSE Reverse(s)

\* Stack.popMultiple(n) = items.splice(-n, n): the last n items, in array
\* order; CardStack.take guards n <= 0
takeCount(s, n) == IF n <= 0 THEN 0 ELSE IF n > Len(s) THEN Len(s) ELSE n
take(s, n) == SubSeq(s, Len(s) - takeCount(s, n) + 1, Len(s))
afterTake(s, n) == SubSeq(s, 1, Len(s) - takeCount(s, n))

CeilDiv(a, b) == (a + b - 1) \div b

\* Stack.splitStacks: copies slices of ceil(size/n) items; the source keeps
\* its items
RECURSIVE splitFrom(_, _, _)
splitFrom(s, i, stackSize) ==
  IF i > Len(s) THEN << >>
  ELSE << SubSeq(s, i, IF i + stackSize - 1 > Len(s) THEN Len(s) ELSE i + stackSize - 1) >>
       \o splitFrom(s, i + stackSize, stackSize)

splitStacks(s, n) == IF Len(s) = 0 THEN << >> ELSE splitFrom(s, 1, CeilDiv(Len(s), n))

\* Stack.mergeStacks: pops every source empty, pushing each popped item
RECURSIVE mergeStacks(_)

\* mergeStacks that stops popping a source at its last item
mergeStacksLeaveOne(ss) ==
  IF Len(ss) = 0 THEN << >>
  ELSE (IF Len(Head(ss)) = 0 THEN << >> ELSE Reverse(Tail(Head(ss))))
       \o mergeStacks(Tail(ss))

mergeStacks(ss) ==
  IF Len(ss) = 0 THEN << >> ELSE Reverse(Head(ss)) \o mergeStacks(Tail(ss))


\* ------------------------------------------------------------------ state
VARIABLES
  players,                  \* ConcreteGame.internalPlayers: the Player objects
  stacks,                   \* the card piles, by object
  gamePlayerCardDrawPile,   \* which pile ConcreteGame.playerCardDrawPile refers to
  diseaseCubeCount,         \* City.diseaseCubeCount, per city and colour
  diseases,                 \* City.diseases, per city
  hasResearchStation,       \* City.hasResearchStation
  globalDiseaseStates,      \* DiseaseManager.globalDiseaseStates
  globalDiseaseCubeCounts,  \* DiseaseManager.globalDiseaseCubeCounts
  outbreakedCities,         \* DiseaseManager.outbreakedCities
  infectionRateStep,        \* DiseaseManager.infectionRateStep (0-based)
  outbreaks,                \* DiseaseManager.outbreaks
  observerRegistered,       \* the game is in DiseaseManager.observers
  gameState,                \* ConcreteGame.state
  currentPlayerIndex,       \* ConcreteGame.currentPlayerIndex (0-based)
  stage,                    \* the stage interface the caller holds for each player
  calls,                    \* number of calls made past the stage interfaces
  splitPiles,           \* the piles the last split returned (its caller's local)
  lastCall                  \* the last operation invoked and how it ended

vars == << players, stacks, gamePlayerCardDrawPile, diseaseCubeCount, diseases,
           hasResearchStation, globalDiseaseStates, globalDiseaseCubeCounts,
           outbreakedCities, infectionRateStep, outbreaks, observerRegistered,
           gameState, currentPlayerIndex, stage, calls, splitPiles,
           lastCall >>

\* the keys of ConcreteGame.internalPlayers: one per withPlayer call
Players == DOMAIN players
\* ConcreteGame.playingOrder: registration order unless set explicitly
playingOrder == [ i \in Players |-> i ]
\* ConcreteGame.difficulty as the constructor leaves it
difficulty == "normal"

\* the pile ConcreteGame.infectionCardDrawPile refers to: assigned by the
\* constructor and never again
gameInfectionCardDrawPile == "infectionDraw"

\* the pile objects.  playerDraw, playerDiscard, infectionDraw,
\* infectionDiscard and epidemic are built by the ConcreteGame constructor;
\* seeded is the pile setupEpidemicCards builds; merged1, merged2, merged3
\* are the piles a player's drawCards builds when it resolves an epidemic.
mergedPileOf(p) == IF p = 1 THEN "merged1" ELSE IF p = 2 THEN "merged2" ELSE "merged3"
StackIds == {"playerDraw", "playerDiscard", "infectionDraw", "infectionDiscard",
             "epidemic", "seeded", "merged1", "merged2", "merged3"}

\* the world a handler works on: the variables, plus what the call did
World ==
  [ players |-> players, stacks |-> stacks,
    gamePlayerCardDrawPile |-> gamePlayerCardDrawPile,
    diseaseCubeCount |-> diseaseCubeCount, diseases |-> diseases,
    hasResearchStation |-> hasResearchStation,
    globalDiseaseStates |-> globalDiseaseStates,
    globalDiseaseCubeCounts |-> globalDiseaseCubeCounts,
    outbreakedCities |-> outbreakedCities,
    infectionRateStep |-> infectionRateStep, outbreaks |-> outbreaks,
    observerRegistered |-> observerRegistered, gameState |-> gameState,
    currentPlayerIndex |-> currentPlayerIndex,
    threw |-> FALSE,          \* the handler threw an Error
    overflow |-> FALSE,       \* the handler ran out of call stack
    signals |-> {},           \* observer notifications raised by the call
    outbreakLog |-> << >> ]   \* cities outbreakAt ran for, in call order

raise(w) == [w EXCEPT !.threw = TRUE]

\* sequencing: the world a call returns is handed to the statements after it
Let(w, Rest(_)) == Rest(w)

\* ------------------------------------------------------- ConcreteGame
\* ConcreteGame.complete
complete(w, outcome) ==
  [w EXCEPT !.players = [ p \in DOMAIN w.players |-> [ @[p] EXCEPT !.state = "inactive" ] ],
            !.gameState = outcome]

\* DiseaseManager.notify*: every registered observer is called
notifyDisease(w, signal, outcome) ==
  LET w1 == [w EXCEPT !.signals = @ \cup {signal}]
  IN IF w.observerRegistered THEN complete(w1, outcome) ELSE w1

\* ------------------------------------------------------- DiseaseManager
infectionRate(w) == infectionRateSequence[w.infectionRateStep + 1]

areAllDiseasesCured(w) == \A dt \in DiseaseTypes : w.globalDiseaseStates[dt] # "uncured"

getGlobalDiseaseCubesLeftFor(w, dt) == NUM_DISEASE_CUBES_COLOUR - w.globalDiseaseCubeCounts[dt]

eradicateDisease(w, dt) ==
  LET w1 == [w EXCEPT !.globalDiseaseStates[dt] = "eradicated"]
  IN IF areAllDiseasesCured(w1) THEN notifyDisease(w1, "allDiseasesCured", "won") ELSE w1

\* cureDisease without the check that the colour is still uncured
cureDiseaseAgain(w, dt) ==
  LET w1 == [w EXCEPT !.globalDiseaseStates[dt] = "cured"]
  IN IF areAllDiseasesCured(w1) THEN notifyDisease(w1, "allDiseasesCured", "won") ELSE w1

\* cureDisease that never tells the observers
cureDiseaseSilent(w, dt) ==
  IF w.globalDiseaseStates[dt] # "uncured" THEN raise(w)
  ELSE [w EXCEPT !.globalDiseaseStates[dt] = "cured"]

\* DiseaseManager.cureDisease
cureDisease(w, dt) ==
  IF w.globalDiseaseStates[dt] # "uncured" THEN raise(w)
  ELSE LET w1 == [w EXCEPT !.globalDiseaseStates[dt] = "cured"]
       IN IF areAllDiseasesCured(w1) THEN notifyDisease(w1, "allDiseasesCured", "won") ELSE w1

\* the switch of treatDiseaseAt has no break: "cured" runs on into "uncured"
treatDiseaseAt(w, city, dt, count) ==
  IF w.diseases[city] = {} THEN raise(w)
  ELSE
    LET diseaseCubeCountOld == w.diseaseCubeCount[city][dt]
        diseaseState == w.globalDiseaseStates[dt]
    IN IF diseaseState = "eradicated" THEN raise(w)
       ELSE
         LET w1 == IF diseaseState = "cured"
                   THEN [w EXCEPT !.diseaseCubeCount[city][dt] = 0,
                                  !.globalDiseaseCubeCounts[dt] = @ - diseaseCubeCountOld]
                   ELSE w
             w2 == [w1 EXCEPT !.diseaseCubeCount[city][dt] = diseaseCubeCountOld - count,
                              !.globalDiseaseCubeCounts[dt] = @ - count]
             w3 == IF w2.diseaseCubeCount[city][dt] = 0
                   THEN [w2 EXCEPT !.diseases[city] = @ \ {dt}] ELSE w2
         IN IF w3.globalDiseaseCubeCounts[dt] = 0 THEN eradicateDisease(w3, dt) ELSE w3

RECURSIVE infectAt(_, _, _, _, _), outbreakAt(_, _, _, _), infectNeighbours(_, _, _, _, _)

\* DiseaseManager.infect, at nesting depth d of outbreakAt
infectAt(w, city, dt, count, d) ==
  IF w.overflow THEN w
  ELSE IF w.globalDiseaseStates[dt] = "eradicated" THEN w
  ELSE
    LET w1 == IF getGlobalDiseaseCubesLeftFor(w, dt) < 0
              THEN notifyDisease(w, "noDiseaseCubes", "lost") ELSE w
        w2 == [w1 EXCEPT !.diseases[city] = @ \cup {dt}]
        sum == w2.diseaseCubeCount[city][dt] + count
        newCityDiseaseCubeCount == IF sum > MaxCubesPerCity THEN MaxCubesPerCity ELSE sum
    IN Let(IF sum > MaxCubesPerCity /\ city \notin w2.outbreakedCities
           THEN outbreakAt(w2, city, dt, d) ELSE w2,
           LAMBDA w3 :
             IF w3.overflow THEN w3
             ELSE [w3 EXCEPT !.diseaseCubeCount[city][dt] = newCityDiseaseCubeCount,
                             !.globalDiseaseCubeCounts[dt] = @ + count])

\* the for loop of outbreakAt over the neighbours, from index i
infectNeighbours(w, ns, i, dt, d) ==
  IF i > Len(ns) \/ w.overflow THEN w
  ELSE infectNeighbours(infectAt(w, ns[i], dt, 1, d), ns, i + 1, dt, d)

\* outbreakAt with the threshold tested one outbreak late
outbreakAtLate(w, city, dt, d) ==
  IF d >= MaxCascadeDepth THEN [w EXCEPT !.overflow = TRUE, !.threw = TRUE]
  ELSE
    LET w1 == [w EXCEPT !.outbreakedCities = @ \cup {city},
                        !.outbreakLog = Append(@, city)]
    IN Let(infectNeighbours(w1, Neighbours(city), 1, dt, d + 1),
           LAMBDA w2 :
             IF w2.overflow THEN w2
             ELSE LET w3 == [w2 EXCEPT !.outbreakedCities = {}, !.outbreaks = @ + 1]
                  IN IF w3.outbreaks = MaxOutbreaks + 1
                     THEN notifyDisease(w3, "eightOutbreaks", "lost") ELSE w3)

\* DiseaseManager.outbreakAt
outbreakAt(w, city, dt, d) ==
  IF d >= MaxCascadeDepth THEN [w EXCEPT !.overflow = TRUE, !.threw = TRUE]
  ELSE
    LET w1 == [w EXCEPT !.outbreakedCities = @ \cup {city},
                        !.outbreakLog = Append(@, city)]
    IN Let(infectNeighbours(w1, Neighbours(city), 1, dt, d + 1),
           LAMBDA w2 :
             IF w2.overflow THEN w2
             ELSE LET w3 == [w2 EXCEPT !.outbreakedCities = {}, !.outbreaks = @ + 1]
                  IN IF w3.outbreaks = MaxOutbreaks
                     THEN notifyDisease(w3, "eightOutbreaks", "lost") ELSE w3)

\* infect that does not look at the colour's state
infectWhateverState(w, city, dt, count) ==
  [ infectAt([w EXCEPT !.globalDiseaseStates[dt] = "uncured"], city, dt, count, 0)
      EXCEPT !.globalDiseaseStates = w.globalDiseaseStates ]

infect(w, city, dt, count) == infectAt(w, city, dt, count, 0)

\* epidemicAt that stops advancing one step before the end of the sequence
epidemicAtStopsEarly(w, city, dt, count) ==
  LET last == Len(infectionRateSequence) - 2
      w1 == [w EXCEPT !.infectionRateStep = IF @ + 1 < last THEN @ + 1 ELSE last]
  IN infect(w1, city, dt, count)

epidemicAt(w, city, dt, count) ==
  LET last == Len(infectionRateSequence) - 1
      w1 == [w EXCEPT !.infectionRateStep = IF @ + 1 < last THEN @ + 1 ELSE last]
  IN infect(w1, city, dt, count)


\* ------------------------------------------------------------- Player
\* a player who stays actionable whatever the number of actions taken
isActionableAnyCount(w, p) == w.players[p].state = "active"

\* Player.isActionable
isActionable(w, p) ==
  w.players[p].state = "active" /\ w.players[p].movesTakenInTurn < MAX_ACTIONS_PER_TURN

hasTooManyCards(w, p) == Len(w.players[p].cards) > MaxCardsInHand

isPlayerAtDifferentCity(w, p, city) == city # w.players[p].location

\* nextPlayerTurn that activates the player at the index without moving on
nextPlayerTurnSamePlayer(w) ==
  [w EXCEPT !.players[playingOrder[w.currentPlayerIndex + 1]].state = "active"]

\* ConcreteGame.nextPlayerTurn
nextPlayerTurn(w) ==
  LET p == playingOrder[w.currentPlayerIndex + 1]
  IN [w EXCEPT !.players[p].state = "active",
               !.currentPlayerIndex = (@ + 1) % Len(playingOrder)]

\* an exhausted pile reported by throwing instead of by the observers
notifyNoPlayerCardsThrows(w) == raise(w)

\* Player.notifyNoPlayerCards -> ConcreteGame.onNoPlayerCards
notifyNoPlayerCards(w) == complete([w EXCEPT !.signals = @ \cup {"noPlayerCards"}], "lost")

\* Player.startTurn
startTurn(w, p) ==
  IF ~isActionable(w, p) THEN raise(w)
  ELSE [w EXCEPT !.players[p].playerCardsDrawnInTurn = 0,
                 !.players[p].movesTakenInTurn = 0]

\* Player.endTurn: the observers run before the player turns inactive
endTurn(w, p) ==
  IF ~w.players[p].hasDrawnInfectionCards THEN raise(w)
  ELSE LET w1 == nextPlayerTurn(w)
       IN [w1 EXCEPT !.players[p].state = "inactive"]

\* Player.finishActionStage
finishActionStage(w, p) == IF isActionable(w, p) THEN raise(w) ELSE w

\* Player.finishDrawStage
finishDrawStage(w, p) ==
  IF w.players[p].playerCardsDrawnInTurn < MaxDrawsPerTurn THEN raise(w) ELSE w

\* driveTo without the check that the two cities are neighbours
driveToAnyCity(w, p, city) ==
  IF hasTooManyCards(w, p) THEN raise(w)
  ELSE IF ~isActionable(w, p) THEN raise(w)
  ELSE IF ~isPlayerAtDifferentCity(w, p, city) THEN raise(w)
  ELSE [w EXCEPT !.players[p].location = city,
                 !.players[p].movesTakenInTurn = @ + 1]

\* Player.driveTo
driveTo(w, p, city) ==
  IF hasTooManyCards(w, p) THEN raise(w)
  ELSE IF ~isActionable(w, p) THEN raise(w)
  ELSE IF ~isPlayerAtDifferentCity(w, p, city) THEN raise(w)
  ELSE IF ~areCitiesNeighbours(w.players[p].location, city) THEN raise(w)
  ELSE [w EXCEPT !.players[p].location = city,
                 !.players[p].movesTakenInTurn = @ + 1]

\* Player.pass
pass(w, p) ==
  IF ~isActionable(w, p) THEN raise(w)
  ELSE IF hasTooManyCards(w, p) THEN raise(w)
  ELSE [w EXCEPT !.players[p].movesTakenInTurn = @ + 1]

\* Player.treatDisease
treatDisease(w, p, dt) ==
  LET location == w.players[p].location
      medic == w.players[p].role = "medic"
  IN IF hasTooManyCards(w, p) THEN raise(w)
     ELSE IF ~isActionable(w, p) THEN raise(w)
     ELSE IF dt \notin w.diseases[location] THEN raise(w)
     ELSE Let(treatDiseaseAt(w, location, dt,
                             IF medic THEN w.diseaseCubeCount[location][dt] ELSE 1),
              LAMBDA w1 :
                IF w1.threw THEN w1
                ELSE IF ~(medic /\ w1.globalDiseaseStates[dt] = "cured")
                     THEN [w1 EXCEPT !.players[p].movesTakenInTurn = @ + 1]
                     ELSE w1)

\* PlayerCard.city and PlayerCard.diseaseType: a card numbered as a city is
\* that city's card; the other player cards carry neither
cardHasCity(card) == card >= 1 /\ card <= NumCities

\* Player.cardForCityPredicate, used with Array.find: the first such card
cardsForCity(w, p, city) ==
  SelectSeq(w.players[p].cards, LAMBDA card : cardHasCity(card) /\ card = city)

\* Player.cardForDiseaseTypePredicate, used with Array.filter
cardsForDiseaseType(w, p, dt) ==
  SelectSeq(w.players[p].cards, LAMBDA card : cardHasCity(card) /\ CardColour(card) = dt)

\* Player.discardCards
discardCards(w, p, cards) ==
  [w EXCEPT !.players[p].cards = SelectSeq(@, LAMBDA card : card \notin SeqToSet(cards)),
            !.stacks["playerDiscard"] = @ \o cards]

\* Player.takeDirectFlightTo
takeDirectFlightTo(w, p, city) ==
  IF hasTooManyCards(w, p) THEN raise(w)
  ELSE IF ~isActionable(w, p) THEN raise(w)
  ELSE IF ~isPlayerAtDifferentCity(w, p, city) THEN raise(w)
  ELSE IF cardsForCity(w, p, city) = << >> THEN raise(w)
  ELSE LET card == Head(cardsForCity(w, p, city))
           w1 == [w EXCEPT !.players[p].location = city]
           w2 == discardCards(w1, p, << card >>)
       IN [w2 EXCEPT !.players[p].movesTakenInTurn = @ + 1]

\* Player.takeCharterFlightTo
takeCharterFlightTo(w, p, city) ==
  IF hasTooManyCards(w, p) THEN raise(w)
  ELSE IF ~isActionable(w, p) THEN raise(w)
  ELSE IF ~isPlayerAtDifferentCity(w, p, city) THEN raise(w)
  ELSE IF cardsForCity(w, p, w.players[p].location) = << >> THEN raise(w)
  ELSE LET card == Head(cardsForCity(w, p, w.players[p].location))
           w1 == [w EXCEPT !.players[p].location = city]
           w2 == discardCards(w1, p, << card >>)
       IN [w2 EXCEPT !.players[p].movesTakenInTurn = @ + 1]

\* Player.takeShuttleFlightTo
takeShuttleFlightTo(w, p, city) ==
  IF hasTooManyCards(w, p) THEN raise(w)
  ELSE IF ~isActionable(w, p) THEN raise(w)
  ELSE IF ~isPlayerAtDifferentCity(w, p, city) THEN raise(w)
  ELSE IF ~w.hasResearchStation[w.players[p].location] \/ ~w.hasResearchStation[city]
       THEN raise(w)
  ELSE [w EXCEPT !.players[p].location = city,
                 !.players[p].movesTakenInTurn = @ + 1]

\* CityNetwork.researchStationsPlaced
researchStationsPlaced(w) == Cardinality({ c \in Cities : w.hasResearchStation[c] })

\* the station limit of Player.buildResearchStation
MaxStationsBeforeReplace == 6

\* buildResearchStation asking for a station to replace one station late
buildResearchStationLate(w, p, replaceCity) ==
  LET location == w.players[p].location
      found == cardsForCity(w, p, location)
      full == researchStationsPlaced(w) > MaxStationsBeforeReplace + 1
  IN IF hasTooManyCards(w, p) THEN raise(w)
     ELSE IF ~isActionable(w, p) THEN raise(w)
     ELSE IF found = << >> /\ w.players[p].role # "operations-expert" THEN raise(w)
     ELSE IF full /\ replaceCity = 0 THEN raise(w)
     ELSE IF full /\ ~w.hasResearchStation[replaceCity] THEN raise(w)
     ELSE
       LET w1 == IF full THEN [w EXCEPT !.hasResearchStation[replaceCity] = FALSE] ELSE w
           w2 == IF found # << >> THEN discardCards(w1, p, << Head(found) >>) ELSE w1
       IN [w2 EXCEPT !.hasResearchStation[location] = TRUE,
                     !.players[p].movesTakenInTurn = @ + 1]

\* Player.buildResearchStation; replaceCity 0 is the argument left out
buildResearchStation(w, p, replaceCity) ==
  LET location == w.players[p].location
      found == cardsForCity(w, p, location)
  IN IF hasTooManyCards(w, p) THEN raise(w)
     ELSE IF ~isActionable(w, p) THEN raise(w)
     ELSE IF found = << >> /\ w.players[p].role # "operations-expert" THEN raise(w)
     ELSE IF researchStationsPlaced(w) > MaxStationsBeforeReplace /\ replaceCity = 0
          THEN raise(w)
     ELSE IF researchStationsPlaced(w) > MaxStationsBeforeReplace
             /\ ~w.hasResearchStation[replaceCity] THEN raise(w)
     ELSE
       LET w1 == IF researchStationsPlaced(w) > MaxStationsBeforeReplace
                 THEN [w EXCEPT !.hasResearchStation[replaceCity] = FALSE] ELSE w
           w2 == IF found # << >> THEN discardCards(w1, p, << Head(found) >>) ELSE w1
       IN [w2 EXCEPT !.hasResearchStation[location] = TRUE,
                     !.players[p].movesTakenInTurn = @ + 1]

\* the number of cards of one colour a cure takes
CardsToCure == 5
CardsToCureScientist == 4

\* cureDisease asking every role for the scientist's number of cards
playerCureDiseaseFourForAll(w, p, dt) ==
  LET cards == cardsForDiseaseType(w, p, dt)
  IN IF hasTooManyCards(w, p) THEN raise(w)
     ELSE IF ~isActionable(w, p) THEN raise(w)
     ELSE IF ~w.hasResearchStation[w.players[p].location] THEN raise(w)
     ELSE IF ~(Len(cards) >= CardsToCureScientist) THEN raise(w)
     ELSE Let(cureDisease(w, dt),
              LAMBDA w1 :
                IF w1.threw THEN w1
                ELSE LET w2 == discardCards(w1, p, cards)
                     IN [w2 EXCEPT !.players[p].movesTakenInTurn = @ + 1])

\* Player.cureDisease
playerCureDisease(w, p, dt) ==
  LET cards == cardsForDiseaseType(w, p, dt)
  IN IF hasTooManyCards(w, p) THEN raise(w)
     ELSE IF ~isActionable(w, p) THEN raise(w)
     ELSE IF ~w.hasResearchStation[w.players[p].location] THEN raise(w)
     ELSE IF ~( Len(cards) >= CardsToCure
                \/ (w.players[p].role = "scientist" /\ Len(cards) >= CardsToCureScientist) )
          THEN raise(w)
     ELSE Let(cureDisease(w, dt),
              LAMBDA w1 :
                IF w1.threw THEN w1
                ELSE LET w2 == discardCards(w1, p, cards)
                     IN [w2 EXCEPT !.players[p].movesTakenInTurn = @ + 1])

\* Player.shareKnowledgeWith; researcherCard 0 is the argument left out
shareKnowledgeWith(w, p, q, researcherCard) ==
  LET found == IF w.players[p].role = "researcher" /\ researcherCard # 0
               THEN SelectSeq(w.players[p].cards, LAMBDA card : card = researcherCard)
               ELSE cardsForCity(w, p, w.players[p].location)
  IN IF hasTooManyCards(w, p) THEN raise(w)
     ELSE IF ~isActionable(w, p) THEN raise(w)
     ELSE IF w.players[p].location # w.players[q].location THEN raise(w)
     ELSE IF found = << >> THEN raise(w)
     ELSE LET card == Head(found)
              w1 == [w EXCEPT !.players[p].cards = SelectSeq(@, LAMBDA c : c # card)]
              w2 == [w1 EXCEPT !.players[q].cards = << card >> \o @]
          IN [w2 EXCEPT !.players[p].movesTakenInTurn = @ + 1]

\* the epidemic branch of Player.drawCards
resolveEpidemic(w, p, card, kind) ==
  LET pile == w.players[p].infectionCardDrawPile
  IN IF Len(w.stacks[pile]) = 0
     THEN raise(w)    \* infectionCard is undefined: reading its city throws
     ELSE
       LET infectionCard == take(w.stacks[pile], 1)[1]
           w1 == [w EXCEPT !.stacks[pile] = afterTake(@, 1)]
       IN Let(epidemicAt(w1, infectionCard, CardColour(infectionCard), 3),
              LAMBDA w2 :
                IF w2.overflow THEN w2
                ELSE
                  LET discarded == shuffle(w2.stacks["infectionDiscard"], kind)
                      combined == mergeStacks(<< discarded, w2.stacks[pile] >>)
                  IN [w2 EXCEPT !.stacks["playerDiscard"] = Append(@, card),
                                !.stacks[pile] = << >>,
                                !.stacks["infectionDiscard"] = << >>,
                                !.stacks[mergedPileOf(p)] = combined,
                                !.players[p].infectionCardDrawPile = mergedPileOf(p)])

\* the for loop of Player.drawCards over the cards taken, from index i
RECURSIVE drawLoop(_, _, _, _, _)
drawLoop(w, p, cardsTaken, i, kind) ==
  IF i > Len(cardsTaken) \/ w.threw THEN w
  ELSE LET card == cardsTaken[i]
           w1 == IF IsEpidemic(card) THEN resolveEpidemic(w, p, card, kind)
                 ELSE [w EXCEPT !.players[p].cards = Append(@, card)]
       IN drawLoop(w1, p, cardsTaken, i + 1, kind)

\* drawCards without the test of the cards already drawn this turn
drawCardsUncapped(w, p, n, kind) ==
  IF hasTooManyCards(w, p) THEN raise(w)
  ELSE
    LET w1 == IF Len(w.stacks["playerDraw"]) < n THEN notifyNoPlayerCards(w) ELSE w
        cardsTaken == take(w1.stacks["playerDraw"], n)
        w2 == [w1 EXCEPT !.stacks["playerDraw"] = afterTake(@, n)]
    IN Let(drawLoop(w2, p, cardsTaken, 1, kind),
           LAMBDA w3 :
             IF w3.threw THEN w3
             ELSE [w3 EXCEPT !.players[p].playerCardsDrawnInTurn = @ + n])

\* Player.drawCards; the player's draw pile is the pile object the
\* constructor was handed
drawCards(w, p, n, kind) ==
  IF hasTooManyCards(w, p) THEN raise(w)
  ELSE IF w.players[p].playerCardsDrawnInTurn + n > MaxDrawsPerTurn
          /\ w.players[p].state = "active" THEN raise(w)
  ELSE
    LET w1 == IF Len(w.stacks["playerDraw"]) < n THEN notifyNoPlayerCards(w) ELSE w
        cardsTaken == take(w1.stacks["playerDraw"], n)
        w2 == [w1 EXCEPT !.stacks["playerDraw"] = afterTake(@, n)]
    IN Let(drawLoop(w2, p, cardsTaken, 1, kind),
           LAMBDA w3 :
             IF w3.threw THEN w3
             ELSE [w3 EXCEPT !.players[p].playerCardsDrawnInTurn = @ + n])

\* the for loop of Player.drawInfectionCards, from index i
RECURSIVE infectLoop(_, _, _, _)
infectLoop(w, p, infectionCards, i) ==
  IF i > Len(infectionCards) \/ w.overflow THEN w
  ELSE LET card == infectionCards[i]
       IN Let(infect(w, card, CardColour(card), 1),
              LAMBDA w1 :
                IF w1.overflow THEN w1
                ELSE infectLoop([w1 EXCEPT !.stacks["infectionDiscard"] = Append(@, card),
                                           !.players[p].hasDrawnInfectionCards = TRUE],
                                p, infectionCards, i + 1))

\* Player.drawInfectionCards
drawInfectionCards(w, p) ==
  IF w.players[p].hasDrawnInfectionCards THEN raise(w)
  ELSE LET pile == w.players[p].infectionCardDrawPile
           infectionCards == take(w.stacks[pile], infectionRate(w))
           w1 == [w EXCEPT !.stacks[pile] = afterTake(@, infectionRate(w))]
       IN infectLoop(w1, p, infectionCards, 1)


\* ------------------------------------------------- ConcreteGame.start
\* the loop of setupPlayerCards over internalPlayers, from player p
RECURSIVE dealLoop(_, _, _, _)
dealLoop(w, p, cardsToTake, kind) ==
  IF p > Len(w.players) \/ w.threw THEN w
  ELSE dealLoop(drawCards(w, p, cardsToTake, kind), p + 1, cardsToTake, kind)

\* ConcreteGame.setupPlayerCards
setupPlayerCards(w, kind) ==
  LET numPlayers == Len(w.players)
      cardsToTake == IF numPlayers = 4 THEN 2 ELSE IF numPlayers = 3 THEN 3 ELSE 4
      w1 == [w EXCEPT !.stacks[w.gamePlayerCardDrawPile] = shuffle(@, kind)]
  IN dealLoop(w1, 1, cardsToTake, kind)

splitCount == IF difficulty = "introduction" THEN 4 ELSE IF difficulty = "normal" THEN 5 ELSE 6

\* the loop of setupEpidemicCards: sub-pile i gets the top epidemic card and
\* is shuffled
seedPile(cardPile, epidemicPile, i, kind) ==
  shuffle(Append(cardPile, epidemicPile[Len(epidemicPile) + 1 - i]), kind)

\* setupEpidemicCards that leaves the pile whole and puts the epidemic cards
\* on top of it
setupEpidemicCardsOnTop(w, kind) ==
  LET pile == w.stacks[w.gamePlayerCardDrawPile]
      epidemicPile == w.stacks["epidemic"]
      taken == IF splitCount < Len(epidemicPile) THEN splitCount ELSE Len(epidemicPile)
  IN [w EXCEPT !.stacks["epidemic"] = afterTake(@, taken),
               !.stacks["seeded"] = pile \o Reverse(take(epidemicPile, taken)),
               !.gamePlayerCardDrawPile = "seeded"]

\* ConcreteGame.setupEpidemicCards: the merged pile is a new object, and
\* only the game's field is pointed at it
setupEpidemicCards(w, kind) ==
  LET splitCardPiles == splitStacks(w.stacks[w.gamePlayerCardDrawPile], splitCount)
      epidemicPile == w.stacks["epidemic"]
      seededPiles == [ i \in 1..Len(splitCardPiles) |->
                         seedPile(splitCardPiles[i], epidemicPile, i, kind) ]
  IN [w EXCEPT !.stacks["epidemic"] = afterTake(@, Len(splitCardPiles)),
               !.stacks["seeded"] = mergeStacks(seededPiles),
               !.gamePlayerCardDrawPile = "seeded"]

\* the inner loop of setupInfectionCards, from index j
RECURSIVE setupInfectLoop(_, _, _, _)
setupInfectLoop(w, infectionCards, j, i) ==
  IF j > Len(infectionCards) \/ w.overflow THEN w
  ELSE setupInfectLoop(infect(w, infectionCards[j], CardColour(infectionCards[j]), i),
                       infectionCards, j + 1, i)

\* one round of the outer loop of setupInfectionCards
setupInfectRound(w, i) ==
  LET infectionCards == take(w.stacks["infectionDraw"], SetupTake)
      w1 == [w EXCEPT !.stacks["infectionDraw"] = afterTake(@, SetupTake)]
  IN setupInfectLoop(w1, infectionCards, 1, i)

\* ConcreteGame.setupInfectionCards
setupInfectionCards(w, kind) ==
  LET w1 == [w EXCEPT !.stacks["infectionDraw"] = shuffle(@, kind)]
  IN setupInfectRound(setupInfectRound(setupInfectRound(w1, 3), 2), 1)

\* ConcreteGame.setupCards
setupCards(w, k1, k2, k3) ==
  Let(setupPlayerCards(w, k1),
      LAMBDA w1 :
        IF w1.threw THEN w1
        ELSE setupInfectionCards(setupEpidemicCards(w1, k2), k3))

\* ConcreteGame.start
start(w, k1, k2, k3) ==
  Let(setupCards([w EXCEPT !.observerRegistered = TRUE], k1, k2, k3),
      LAMBDA w1 :
        IF w1.threw THEN w1
        ELSE LET w2 == nextPlayerTurn(w1)
             IN [w2 EXCEPT !.hasResearchStation[StartCity] = TRUE,
                           !.gameState = "in-progress"])

\* ---------------------------------------------------------------- actions
\* roles ConcreteGame.assignRandomRole hands to the players
roles == <<"medic", "dispatcher">>

NoCall == [ op |-> "none", who |-> 0, city |-> 0, dt |-> "none", n |-> 0,
            threw |-> FALSE, overflow |-> FALSE, signals |-> {}, outbreakLog |-> << >> ]

\* Game.initialise().withPlayer(..).withPlayer(..)
\* the state the constructors leave, for a given player card pile and the
\* roles assignRandomRole handed out
ConstructedWith(playerCards, playerRoles) ==
  /\ players = [ p \in DOMAIN playerRoles |->
       [ state |-> "inactive", cards |-> << >>, location |-> StartCity,
         role |-> playerRoles[p], movesTakenInTurn |-> 0,
         playerCardsDrawnInTurn |-> 0, hasDrawnInfectionCards |-> FALSE,
         infectionCardDrawPile |-> "infectionDraw" ] ]
  /\ stacks = [ id \in StackIds |->
        IF id = "playerDraw" THEN playerCards
        ELSE IF id = "infectionDraw" THEN [ i \in 1..NumCities |-> i ]
        ELSE IF id = "epidemic" THEN [ i \in 1..NumEpidemicCards |-> NumCities + i ]
        ELSE << >> ]
  /\ gamePlayerCardDrawPile = "playerDraw"
  /\ diseaseCubeCount = [ c \in Cities |-> [ dt \in DiseaseTypes |-> 0 ] ]
  /\ diseases = [ c \in Cities |-> {} ]
  /\ hasResearchStation = [ c \in Cities |-> FALSE ]
  /\ globalDiseaseStates = [ dt \in DiseaseTypes |-> "uncured" ]
  /\ globalDiseaseCubeCounts = [ dt \in DiseaseTypes |-> 0 ]
  /\ outbreakedCities = {}
  /\ infectionRateStep = 0
  /\ outbreaks = 0
  /\ observerRegistered = FALSE
  /\ gameState = "setting-up"
  /\ currentPlayerIndex = 0
  /\ stage = [ p \in DOMAIN playerRoles |-> "InactiveStage" ]
  /\ calls = 0
  /\ splitPiles = << >>
  /\ lastCall = NoCall

Constructed(playerCards) == ConstructedWith(playerCards, roles)

Init == Constructed([ i \in 1..NumPlayerCards |-> i ])

\* store the world a handler left behind
Commit(w, op, who, city, dt, n) ==
  /\ players' = w.players
  /\ stacks' = w.stacks
  /\ gamePlayerCardDrawPile' = w.gamePlayerCardDrawPile
  /\ diseaseCubeCount' = w.diseaseCubeCount
  /\ diseases' = w.diseases
  /\ hasResearchStation' = w.hasResearchStation
  /\ globalDiseaseStates' = w.globalDiseaseStates
  /\ globalDiseaseCubeCounts' = w.globalDiseaseCubeCounts
  /\ outbreakedCities' = w.outbreakedCities
  /\ infectionRateStep' = w.infectionRateStep
  /\ outbreaks' = w.outbreaks
  /\ observerRegistered' = w.observerRegistered
  /\ gameState' = w.gameState
  /\ currentPlayerIndex' = w.currentPlayerIndex
  /\ UNCHANGED splitPiles
  /\ lastCall' = [ op |-> op, who |-> who, city |-> city, dt |-> dt, n |-> n,
                   threw |-> w.threw, overflow |-> w.overflow,
                   signals |-> w.signals, outbreakLog |-> w.outbreakLog ]

\* a lifecycle method hands the caller the next stage interface when it
\* returns, and nothing when it throws
Returns(w, p, next) ==
  stage' = IF w.threw THEN stage ELSE [stage EXCEPT ![p] = next]

Start ==
  /\ gameState = "setting-up"
  /\ \E kind \in ShuffleKinds : Commit(start(World, kind, kind, kind), "start", 0, 0, "none", 0)
  /\ UNCHANGED stage

StartTurn(p) ==
  /\ Commit(startTurn(World, p), "startTurn", p, 0, "none", 0)
  /\ Returns(startTurn(World, p), p, "ActionStage")

EndTurn(p) ==
  /\ Commit(endTurn(World, p), "endTurn", p, 0, "none", 0)
  /\ Returns(endTurn(World, p), p, "InactiveStage")

FinishActionStage(p) ==
  /\ Commit(finishActionStage(World, p), "finishActionStage", p, 0, "none", 0)
  /\ Returns(finishActionStage(World, p), p, "DrawStage")

FinishDrawStage(p) ==
  /\ Commit(finishDrawStage(World, p), "finishDrawStage", p, 0, "none", 0)
  /\ Returns(finishDrawStage(World, p), p, "InfectorStage")

\* cities a drive is tried to: two neighbours and a city next to neither
DriveCities == {1, 2, 4}

DriveTo(p, city) ==
  /\ Commit(driveTo(World, p, city), "driveTo", p, city, "none", 0)
  /\ UNCHANGED stage

Pass(p) ==
  /\ Commit(pass(World, p), "pass", p, 0, "none", 0)
  /\ UNCHANGED stage

\* colours a treatment is tried for
TreatColours == {"red", "yellow"}

TreatDisease(p, dt) ==
  /\ Commit(treatDisease(World, p, dt), "treatDisease", p, 0, dt, 0)
  /\ UNCHANGED stage

DrawCounts == {1, 2}

DrawCards(p, n) ==
  /\ \E kind \in ShuffleKinds : Commit(drawCards(World, p, n, kind), "drawCards", p, 0, "none", n)
  /\ UNCHANGED stage

DrawInfectionCards(p) ==
  /\ Commit(drawInfectionCards(World, p), "drawInfectionCards", p, 0, "none", 0)
  /\ UNCHANGED stage

\* the players are handed out by the started game
Started == gameState # "setting-up"

\* the caller has kept to the stage interfaces and holds interface st for p
Staged(p, st) == Started /\ calls = 0 /\ stage[p] = st /\ UNCHANGED calls

\* A caller that holds, for each player, the stage interface the last
\* lifecycle method returned (InactiveStage, ActionStage, DrawStage,
\* InfectorStage) and invokes only what that interface declares.
Next ==
  \/ Start /\ UNCHANGED calls
  \/ \E p \in Players : Staged(p, "InactiveStage") /\ StartTurn(p)
  \/ \E p \in Players, city \in DriveCities : Staged(p, "ActionStage") /\ DriveTo(p, city)
  \/ \E p \in Players : Staged(p, "ActionStage") /\ Pass(p)
  \/ \E p \in Players, dt \in TreatColours : Staged(p, "ActionStage") /\ TreatDisease(p, dt)
  \/ \E p \in Players : Staged(p, "ActionStage") /\ FinishActionStage(p)
  \/ \E p \in Players, n \in DrawCounts : Staged(p, "DrawStage") /\ DrawCards(p, n)
  \/ \E p \in Players : Staged(p, "DrawStage") /\ FinishDrawStage(p)
  \/ \E p \in Players : Staged(p, "InfectorStage") /\ DrawInfectionCards(p)
  \/ \E p \in Players : Staged(p, "InfectorStage") /\ EndTurn(p)

Spec == Init /\ [][Next]_vars

\* an operation invoked on a Player object directly, whatever interface the
\* caller holds
OffStage == Started /\ calls < MaxOffStage /\ calls' = calls + 1

\* The same caller, which ends its run with up to MaxOffStage operations
\* invoked on the Player objects directly.
NextOffStage ==
  \/ Next
  \/ \E p \in Players : OffStage /\ StartTurn(p)
  \/ \E p \in Players : OffStage /\ EndTurn(p)
  \/ \E p \in Players : OffStage /\ FinishActionStage(p)
  \/ \E p \in Players : OffStage /\ FinishDrawStage(p)
  \/ \E p \in Players, city \in DriveCities : OffStage /\ DriveTo(p, city)
  \/ \E p \in Players : OffStage /\ Pass(p)
  \/ \E p \in Players, dt \in TreatColours : OffStage /\ TreatDisease(p, dt)
  \/ \E p \in Players, n \in DrawCounts : OffStage /\ DrawCards(p, n)
  \/ \E p \in Players : OffStage /\ DrawInfectionCards(p)

SpecOffStage == Init /\ [][NextOffStage]_vars

\* ------------------------------------------- the DiseaseManager, directly
\* arguments the direct calls are made with
CallCities == {1, 2, 3}
CallColours == {"red", "yellow"}
InfectCounts == {1, 3}
TreatCounts == {1, 2}

Infect(city, dt, count) ==
  /\ Commit(infect(World, city, dt, count), "infect", 0, city, dt, count)
  /\ UNCHANGED stage

EpidemicAt(city, dt, count) ==
  /\ Commit(epidemicAt(World, city, dt, count), "epidemicAt", 0, city, dt, count)
  /\ UNCHANGED stage

TreatDiseaseAt(city, dt, count) ==
  /\ Commit(treatDiseaseAt(World, city, dt, count), "treatDiseaseAt", 0, city, dt, count)
  /\ UNCHANGED stage

CureDisease(dt) ==
  /\ Commit(cureDisease(World, dt), "cureDisease", 0, 0, dt, 0)
  /\ UNCHANGED stage

\* a public method of the DiseaseManager invoked directly
Direct == Started /\ calls < MaxCalls /\ calls' = calls + 1

\* The disease engine of a started match, driven by up to MaxCalls direct
\* calls of its public mutators.
NextDisease ==
  \/ Start /\ UNCHANGED calls
  \/ \E city \in CallCities, dt \in CallColours, count \in InfectCounts :
       Direct /\ Infect(city, dt, count)
  \/ \E city \in CallCities, dt \in CallColours, count \in InfectCounts :
       Direct /\ EpidemicAt(city, dt, count)
  \/ \E city \in CallCities, dt \in CallColours, count \in TreatCounts :
       Direct /\ TreatDiseaseAt(city, dt, count)
  \/ \E dt \in CallColours : Direct /\ CureDisease(dt)

SpecDisease == Init /\ [][NextDisease]_vars

\* --------------------------------------- the cube supply, run towards its end
\* direct infect calls that place cubes of one colour on cities of another
\* colour's block, which hold none of it after setup
MaxCubeCalls == 5
CubeCities == {10, 11, 12, 13, 14}
CubeColour == "red"
CubeCounts == {2, 3}

DirectCubes == Started /\ calls < MaxCubeCalls /\ calls' = calls + 1

NextCubes ==
  \/ Start /\ UNCHANGED calls
  \/ \E city \in CubeCities, count \in CubeCounts :
       DirectCubes /\ Infect(city, CubeColour, count)

SpecCubes == Init /\ [][NextCubes]_vars

\* ------------------------------------------------ the cures, run to the end
\* direct cureDisease calls on every colour, and treatDiseaseAt calls on a
\* city that may hold the last cubes of a colour
MaxCureCalls == 4
CureCities == {8, 9}
CureTreatCounts == {1}

DirectCure == Started /\ calls < MaxCureCalls /\ calls' = calls + 1

NextCure ==
  \/ Start /\ UNCHANGED calls
  \/ \E dt \in DiseaseTypes : DirectCure /\ CureDisease(dt)
  \/ \E city \in CureCities, dt \in DiseaseTypes, count \in CureTreatCounts :
       DirectCure /\ TreatDiseaseAt(city, dt, count)

SpecCure == Init /\ [][NextCure]_vars

\* ------------------------------------------------- the piles, split and merged
\* CardStack.split and CardStack.merge applied to piles of up to MaxPileSize
\* distinct cards, in every order
MaxPileSize == 4
MaxSplit == 4
PileCards == 1..MaxPileSize
Piles ==
  UNION { { s \in [1..k -> PileCards] : \A i, j \in 1..k : i # j => s[i] # s[j] } :
          k \in 0..MaxPileSize }
SplitCounts == 0..MaxSplit

\* what neither split nor merge touches
pileFrame ==
  << players, gamePlayerCardDrawPile, diseaseCubeCount, diseases,
     hasResearchStation, globalDiseaseStates, globalDiseaseCubeCounts,
     outbreakedCities, infectionRateStep, outbreaks, observerRegistered,
     gameState, currentPlayerIndex, stage, calls >>

InitPiles == \E pile \in Piles : Constructed(pile)

\* CardStack.split(n) on the player draw pile; Stack.splitStacks throws for
\* n < 1 and otherwise hands its caller the new piles
Split(n) ==
  /\ splitPiles' = IF n < 1 THEN splitPiles
                       ELSE splitStacks(stacks["playerDraw"], n)
  /\ lastCall' = [NoCall EXCEPT !.op = "split", !.n = n, !.threw = (n < 1)]
  /\ UNCHANGED << stacks, pileFrame >>

\* CardStack.merge on the piles the last split returned: every pile is
\* popped empty into one new pile
Merge ==
  /\ stacks' = [stacks EXCEPT !["seeded"] = mergeStacks(splitPiles)]
  /\ splitPiles' = [ i \in 1..Len(splitPiles) |-> << >> ]
  /\ lastCall' = [NoCall EXCEPT !.op = "merge", !.n = Len(splitPiles)]
  /\ UNCHANGED pileFrame

NextPiles ==
  \/ \E n \in SplitCounts : Split(n)
  \/ Merge

SpecPiles == InitPiles /\ [][NextPiles]_vars

\* ------------------------------------- a player pile that holds an epidemic
\* The player card pile is read from a data file and is typed to hold player
\* and epidemic cards; here it holds one epidemic card, k-th from the bottom,
\* and the staged caller plays on it.
EpidemicPositions == {2, 3}
FiledEpidemicCard == NumCities + NumEpidemicCards + 1
playerCardsWithEpidemic(k) ==
  [ i \in 1..(NumPlayerCards + 1) |->
      IF i < k THEN i ELSE IF i = k THEN FiledEpidemicCard ELSE i - 1 ]

InitEpidemic == \E k \in EpidemicPositions : Constructed(playerCardsWithEpidemic(k))

SpecEpidemic == InitEpidemic /\ [][Next]_vars

\* --------------------------------------------- a match set up on a full deck
\* The staged game on a player card file of SetupDeckSize cards: enough for
\* every sub-pile of the epidemic seeding to hold several cards.  The cards
\* past the city cards are player cards without a city, numbered below 1.
SetupDeckSize == 25
fullDeck ==
  [ i \in 1..SetupDeckSize |-> IF i <= NumPlayerCards THEN i ELSE NumPlayerCards - i ]

InitSetup == Constructed(fullDeck)

SpecSetup == InitSetup /\ [][Next]_vars

\* ------------------------------------------- the first player's action stage
\* The player start() made active, in any of four roles: up to MaxPrepCalls
\* calls of startTurn and drawCards open the turn and fill the hand, then the
\* nine actions are called in any order.
MaxPrepCalls == 4
Actor == 1
Partner == 2
ActorRoles == {"medic", "scientist", "researcher", "operations-expert"}
ActCities == {1, 2}
ActColours == {"red"}
ReplaceCities == {0}
ResearcherCards == {0, 2}

TakeDirectFlightTo(p, city) ==
  /\ Commit(takeDirectFlightTo(World, p, city), "takeDirectFlightTo", p, city, "none", 0)
  /\ UNCHANGED stage

TakeCharterFlightTo(p, city) ==
  /\ Commit(takeCharterFlightTo(World, p, city), "takeCharterFlightTo", p, city, "none", 0)
  /\ UNCHANGED stage

TakeShuttleFlightTo(p, city) ==
  /\ Commit(takeShuttleFlightTo(World, p, city), "takeShuttleFlightTo", p, city, "none", 0)
  /\ UNCHANGED stage

BuildResearchStation(p, replaceCity) ==
  /\ Commit(buildResearchStation(World, p, replaceCity), "buildResearchStation",
            p, replaceCity, "none", 0)
  /\ UNCHANGED stage

PlayerCureDisease(p, dt) ==
  /\ Commit(playerCureDisease(World, p, dt), "playerCureDisease", p, 0, dt, 0)
  /\ UNCHANGED stage

ShareKnowledgeWith(p, q, researcherCard) ==
  /\ Commit(shareKnowledgeWith(World, p, q, researcherCard), "shareKnowledgeWith",
            p, 0, "none", researcherCard)
  /\ UNCHANGED stage

InitActions ==
  \E role \in ActorRoles :
    ConstructedWith([ i \in 1..NumPlayerCards |-> i ], << role, "dispatcher" >>)

Prep ==
  /\ Started /\ lastCall.op \in {"start", "startTurn", "drawCards"}
  /\ calls < MaxPrepCalls /\ calls' = calls + 1
Act == Started /\ UNCHANGED calls

NextActions ==
  \/ Start /\ UNCHANGED calls
  \/ Prep /\ StartTurn(Actor)
  \/ Prep /\ DrawCards(Actor, MaxDrawsPerTurn)
  \/ \E city \in ActCities : Act /\ DriveTo(Actor, city)
  \/ \E city \in ActCities : Act /\ TakeDirectFlightTo(Actor, city)
  \/ \E city \in ActCities : Act /\ TakeCharterFlightTo(Actor, city)
  \/ \E city \in ActCities : Act /\ TakeShuttleFlightTo(Actor, city)
  \/ \E replaceCity \in ReplaceCities : Act /\ BuildResearchStation(Actor, replaceCity)
  \/ \E dt \in ActColours : Act /\ PlayerCureDisease(Actor, dt)
  \/ \E dt \in ActColours : Act /\ TreatDisease(Actor, dt)
  \/ \E card \in ResearcherCards : Act /\ ShareKnowledgeWith(Actor, Partner, card)
  \/ Act /\ Pass(Actor)

\* The staged caller with shareKnowledgeWith among the actions: the acting
\* player hands a card to a player whose InactiveStage the caller holds.
\* Card 0 stands for the omitted researcherCard argument.
NextShare ==
  \/ Next
  \/ \E p \in Players, q \in Players, card \in 0..4 :
        /\ Staged(p, "ActionStage") /\ q # p /\ stage[q] = "InactiveStage"
        /\ ShareKnowledgeWith(p, q, card)

SpecShare == InitActions /\ [][NextShare]_vars

\* The first player's Player object driven over cities 1..8 for as many
\* turns as it takes to build on every one of them: startTurn, driveTo to a
\* neighbouring city and buildResearchStation with the replaceCity argument left out (0), naming the
\* starting city or naming city 8.
NextStations ==
  \/ Start /\ UNCHANGED calls
  \/ Act /\ StartTurn(Actor)
  \/ \E city \in 1..8 :
        Act /\ areCitiesNeighbours(players[Actor].location, city) /\ DriveTo(Actor, city)
  \/ \E replaceCity \in {0, 1, 8} : Act /\ BuildResearchStation(Actor, replaceCity)

SpecStations == InitActions /\ [][NextStations]_vars

\* Number of epidemicAt calls explored after start().
MaxEpidemics == 7

\* The disease engine of a started match taken through up to MaxEpidemics
\* epidemics on city 5, each of which may be followed by one other call: an
\* infect, a treatDiseaseAt or a cureDisease for the same city and colour, or
\* a player's drawInfectionCards.
NextRate ==
  \/ Start /\ UNCHANGED calls
  \/ /\ Started /\ calls < MaxEpidemics /\ calls' = calls + 1
     /\ EpidemicAt(5, "yellow", 1)
  \/ lastCall.op = "epidemicAt" /\ UNCHANGED calls /\ Infect(5, "yellow", 1)
  \/ lastCall.op = "epidemicAt" /\ UNCHANGED calls /\ TreatDiseaseAt(5, "yellow", 1)
  \/ lastCall.op = "epidemicAt" /\ UNCHANGED calls /\ CureDisease("yellow")
  \/ \E p \in Players :
        lastCall.op = "epidemicAt" /\ UNCHANGED calls /\ DrawInfectionCards(p)

SpecRate == Init /\ [][NextRate]_vars

\* Number of player cards in a deck that runs out in the first turns: one
\* more than the 8 cards start() deals.
ShortDeckSize == 9

\* Highest count of cards drawn in a turn from which a further call is
\* explored: a player the ended match has set inactive is not held to the
\* cap of drawCards.
MaxDrawnCount == 4

\* The staged caller of Next; a further drawCards is explored only while the
\* player's count of drawn cards is at most MaxDrawnCount.
NextShortDeck ==
  \/ Start /\ UNCHANGED calls
  \/ \E p \in Players : Staged(p, "InactiveStage") /\ StartTurn(p)
  \/ \E p \in Players, city \in DriveCities : Staged(p, "ActionStage") /\ DriveTo(p, city)
  \/ \E p \in Players : Staged(p, "ActionStage") /\ Pass(p)
  \/ \E p \in Players, dt \in TreatColours : Staged(p, "ActionStage") /\ TreatDisease(p, dt)
  \/ \E p \in Players : Staged(p, "ActionStage") /\ FinishActionStage(p)
  \/ \E p \in Players, n \in DrawCounts :
       /\ players[p].playerCardsDrawnInTurn <= MaxDrawnCount
       /\ Staged(p, "DrawStage") /\ DrawCards(p, n)
  \/ \E p \in Players : Staged(p, "DrawStage") /\ FinishDrawStage(p)
  \/ \E p \in Players : Staged(p, "InfectorStage") /\ DrawInfectionCards(p)
  \/ \E p \in Players : Staged(p, "InfectorStage") /\ EndTurn(p)

\* The staged caller on a match whose player deck holds ShortDeckSize cards.
SpecShortDeck ==
  Constructed([ i \in 1..ShortDeckSize |-> i ]) /\ [][NextShortDeck]_vars

\* The staged caller, which ends its run with up to MaxOffStage calls of
\* endTurn on a Player object it holds.
NextThreePlayers ==
  \/ NextShortDeck
  \/ \E p \in Players : OffStage /\ EndTurn(p)

\* A match of three players: Game.initialise() with three withPlayer calls.
SpecThreePlayers ==
  /\ ConstructedWith([ i \in 1..NumPlayerCards |-> i ], roles \o <<"scientist">>)
  /\ [][NextThreePlayers]_vars

\* ------------------------------------------- discardCards called directly
\* Length of the player discard pile from which no further discardCards
\* call is explored.
MaxDiscarded == 1

DiscardCards(p, card) ==
  /\ Commit(discardCards(World, p, << card >>), "discardCards", p, 0, "none", card)
  /\ UNCHANGED stage

\* The staged caller, which also calls discardCards, declared by ActionStage
\* and by DrawStage, with any one card of the player deck.
NextDiscard ==
  \/ Next
  \/ \E p \in Players, card \in 1..NumPlayerCards :
       /\ Len(stacks["playerDiscard"]) < MaxDiscarded
       /\ Staged(p, "ActionStage") /\ DiscardCards(p, card)
  \/ \E p \in Players, card \in 1..NumPlayerCards :
       /\ Len(stacks["playerDiscard"]) < MaxDiscarded
       /\ Staged(p, "DrawStage") /\ DiscardCards(p, card)

SpecDiscard == Init /\ [][NextDiscard]_vars

\* --------------------------------- a player pile that holds two epidemic cards
\* The player card file holds two epidemic cards, third and fifth from the
\* bottom: with the order kept each player draws one in their first turn.
playerCardsWithTwoEpidemics ==
  [ i \in 1..(NumPlayerCards + 2) |->
      IF i < 3 THEN i
      ELSE IF i = 3 THEN FiledEpidemicCard + 1
      ELSE IF i = 4 THEN i - 1
      ELSE IF i = 5 THEN FiledEpidemicCard
      ELSE i - 2 ]

SpecTwoEpidemics ==
  Constructed(playerCardsWithTwoEpidemics) /\ [][NextShortDeck]_vars

SpecActions == InitActions /\ [][NextActions]_vars

\* ----------------------------------------------------------------- claims
\* the player after p in the playing order, wrapping round
NextInOrder(p) ==
  LET i == CHOOSE k \in 1..Len(playingOrder) : playingOrder[k] = p
  IN playingOrder[(i % Len(playingOrder)) + 1]

NoDuplicates(s) == \A i, j \in 1..Len(s) : i # j => s[i] # s[j]

\* C1: after a player's endTurn succeeds in a match in progress, the next
\* player in the playing order is the active player and that player's
\* startTurn succeeds, in every round.
C1_NextPlayerStarts ==
  (lastCall.op = "endTurn" /\ ~lastCall.threw /\ gameState = "in-progress")
    => /\ players[NextInOrder(lastCall.who)].state = "active"
       /\ ~startTurn(World, NextInOrder(lastCall.who)).threw

\* C2: every top-level infect call terminates: the chain of outbreakAt and
\* infect calls it starts never outgrows the call stack.
C2_InfectTerminates ==
  lastCall.op \in {"infect", "epidemicAt"} => ~lastCall.overflow

\* C3: within the cascade of one top-level infect call outbreakAt runs at
\* most once for any city.
C3_OutbreakOncePerCity ==
  lastCall.op \in {"infect", "epidemicAt"} => NoDuplicates(lastCall.outbreakLog)

\* C4: after any sequence of infect, epidemicAt and treatDiseaseAt calls every
\* city's cube count for every colour is between 0 and 3.
C4_CubesInRange ==
  \A c \in Cities, dt \in DiseaseTypes :
    diseaseCubeCount[c][dt] >= 0 /\ diseaseCubeCount[c][dt] <= MaxCubesPerCity

\* C5: endTurn fails unless drawInfectionCards has been performed during the
\* current turn.  An endTurn invoked on a player directly after the previous
\* player's successful endTurn comes before any drawInfectionCards of the turn
\* that endTurn opened, so it must fail, whatever was drawn in earlier turns.
C5_EndTurnNeedsInfection ==
  [][ ( /\ lastCall.op = "endTurn" /\ ~lastCall.threw
        /\ lastCall'.op = "endTurn" /\ lastCall'.who # lastCall.who )
      => lastCall'.threw ]_vars

\* What player p has done in the turn they are in, as the caller sees it.  A
\* caller who has followed the staged interface so far (calls = 0) and still
\* holds p's InactiveStage has not started p's turn: nothing has been done in
\* it.  Once startTurn has succeeded the two counters count from zero.
ActionsThisTurn(p) ==
  IF stage[p] = "InactiveStage" THEN 0 ELSE players[p].movesTakenInTurn

CardsDrawnThisTurn(p) ==
  IF stage[p] = "InactiveStage" THEN 0 ELSE players[p].playerCardsDrawnInTurn

\* C6: for a player in their turn finishActionStage fails if and only if fewer
\* than 4 actions have been taken this turn, and finishDrawStage fails if and
\* only if fewer than 2 player cards were drawn this turn.
C6_FinishStageIff ==
  [][ \A p \in Players :
        ( calls = 0 /\ players[p].state = "active" /\ lastCall'.who = p ) =>
          /\ lastCall'.op = "finishActionStage" =>
               (lastCall'.threw <=> ActionsThisTurn(p) < MAX_ACTIONS_PER_TURN)
          /\ lastCall'.op = "finishDrawStage" =>
               (lastCall'.threw <=> CardsDrawnThisTurn(p) < MaxDrawsPerTurn) ]_vars

\* what C7 calls game state: everything but the record of the call
gameVars == << players, stacks, gamePlayerCardDrawPile, diseaseCubeCount, diseases,
               hasResearchStation, globalDiseaseStates, globalDiseaseCubeCounts,
               outbreakedCities, infectionRateStep, outbreaks, gameState,
               currentPlayerIndex >>

\* C7: while the match is in progress an action, drawCards,
\* drawInfectionCards, finishActionStage, finishDrawStage or endTurn invoked
\* on a player whose state is inactive fails and changes no game state.
C7_InactiveCannotAct ==
  [][ \A p \in Players :
        ( /\ gameState = "in-progress" /\ players[p].state = "inactive"
          /\ lastCall'.who = p
          /\ lastCall'.op \in {"driveTo", "pass", "treatDisease", "drawCards",
                               "drawInfectionCards", "finishActionStage",
                               "finishDrawStage", "endTurn"} )
        => (lastCall'.threw /\ UNCHANGED gameVars) ]_vars

\* the README's first turn, run from world w by the first player in the
\* playing order: startTurn, a drive to a neighbouring city, three passes,
\* finishActionStage, drawCards(2), finishDrawStage, drawInfectionCards,
\* endTurn
ReadmeTurn(w, kind) ==
  LET first == playingOrder[1]
      w1 == startTurn(w, first)
      w2 == driveTo(w1, first, Neighbours(w1.players[first].location)[2])
      w3 == pass(pass(pass(w2, first), first), first)
      w4 == finishActionStage(w3, first)
      w5 == drawCards(w4, first, 2, kind)
      w6 == finishDrawStage(w5, first)
      w7 == drawInfectionCards(w6, first)
  IN endTurn(w7, first)

\* C8: after start() with two players the first player's startTurn, drive,
\* three passes, finishActionStage, drawCards(2), finishDrawStage,
\* drawInfectionCards and endTurn all succeed; afterwards the first player is
\* inactive and the second player's startTurn succeeds.
C8_ReadmeTurnSucceeds ==
  (lastCall.op = "start" /\ ~lastCall.threw) =>
    \A kind \in ShuffleKinds :
      LET w == ReadmeTurn(World, kind)
      IN /\ ~w.threw
         /\ w.players[playingOrder[1]].state = "inactive"
         /\ w.players[playingOrder[1]].movesTakenInTurn = 4
         /\ ~startTurn(w, playingOrder[2]).threw

\* C8 witness: the match has reached the end of that turn: the first player
\* drove to the neighbouring city, took four actions, drew two cards, drew
\* infection cards and ended the turn, and the second player is active.
C8_Witness ==
  /\ lastCall.op = "endTurn" /\ lastCall.who = playingOrder[1] /\ ~lastCall.threw
  /\ players[playingOrder[1]].state = "inactive"
  /\ players[playingOrder[1]].location = Neighbours(StartCity)[2]
  /\ players[playingOrder[1]].movesTakenInTurn = 4
  /\ players[playingOrder[1]].playerCardsDrawnInTurn = 2
  /\ Len(players[playingOrder[1]].cards) = 6
  /\ players[playingOrder[2]].state = "active"
  /\ stage[playingOrder[2]] = "InactiveStage"

\* C9: driveTo a city that is not adjacent to the player's city fails, and
\* the player's location, actions-taken counter and hand are unchanged.
C9_DriveNonAdjacentFails ==
  [][ \A p \in Players :
        ( /\ lastCall'.op = "driveTo" /\ lastCall'.who = p
          /\ ~areCitiesNeighbours(players[p].location, lastCall'.city) )
        => /\ lastCall'.threw
           /\ players'[p].location = players[p].location
           /\ players'[p].movesTakenInTurn = players[p].movesTakenInTurn
           /\ players'[p].cards = players[p].cards ]_vars

\* C9 witness: a player who could act tried to drive to a city that is
\* neither their city nor a neighbour of it, and the call failed.
C9_Witness ==
  /\ lastCall.op = "driveTo" /\ lastCall.threw
  /\ players[lastCall.who].state = "active"
  /\ players[lastCall.who].movesTakenInTurn < MAX_ACTIONS_PER_TURN
  /\ lastCall.city # players[lastCall.who].location
  /\ ~areCitiesNeighbours(players[lastCall.who].location, lastCall.city)

Rank(diseaseState) ==
  IF diseaseState = "uncured" THEN 0 ELSE IF diseaseState = "cured" THEN 1 ELSE 2

\* C10: a colour's state only moves forward (uncured, cured, eradicated), and
\* cureDisease on a colour that is not uncured fails and leaves every
\* colour's state as it was.
C10_StatesOnlyForward ==
  [][ /\ \A dt \in DiseaseTypes :
           Rank(globalDiseaseStates'[dt]) >= Rank(globalDiseaseStates[dt])
      /\ ( lastCall'.op = "cureDisease" /\ globalDiseaseStates[lastCall'.dt] # "uncured" )
           => (lastCall'.threw /\ globalDiseaseStates' = globalDiseaseStates) ]_vars

\* C10 witness: cureDisease was refused for a colour that has been eradicated
\* while another colour is still uncured.
C10_Witness ==
  /\ lastCall.op = "cureDisease" /\ lastCall.threw
  /\ globalDiseaseStates[lastCall.dt] = "eradicated"
  /\ \E dt \in DiseaseTypes : globalDiseaseStates[dt] = "uncured"

\* C11: treatDiseaseAt on a cured colour leaves the city's count for that
\* colour at 0, whatever count is passed, and lowers the colour's global
\* count by exactly the number of cubes the city held.
C11_TreatCuredRemovesAll ==
  [][ ( /\ lastCall'.op = "treatDiseaseAt" /\ ~lastCall'.threw
        /\ globalDiseaseStates[lastCall'.dt] = "cured" )
      => /\ diseaseCubeCount'[lastCall'.city][lastCall'.dt] = 0
         /\ globalDiseaseCubeCounts'[lastCall'.dt]
              = globalDiseaseCubeCounts[lastCall'.dt]
                  - diseaseCubeCount[lastCall'.city][lastCall'.dt] ]_vars

\* C12: treatDiseaseAt(city, colour, count) fails and changes nothing whenever
\* the city holds no cube of that colour, also when the city is infected with
\* another colour.
C12_TreatNeedsCubes ==
  [][ ( /\ lastCall'.op = "treatDiseaseAt"
        /\ diseaseCubeCount[lastCall'.city][lastCall'.dt] = 0 )
      => (lastCall'.threw /\ UNCHANGED gameVars) ]_vars

\* C13: an infect call that would take a colour's global cube total above 24
\* raises the cube-exhaustion signal during that call, and the match outcome
\* becomes lost.
C13_ExhaustionSignalled ==
  [][ ( /\ lastCall'.op = "infect" /\ ~lastCall'.threw
        /\ globalDiseaseStates[lastCall'.dt] # "eradicated"
        /\ globalDiseaseCubeCounts[lastCall'.dt] + lastCall'.n
             > NUM_DISEASE_CUBES_COLOUR )
      => /\ "noDiseaseCubes" \in lastCall'.signals
         /\ gameState' = "lost" ]_vars

\* C14: the outbreak counter never decreases, and the operation whose cascade
\* brings it to 8 raises the eight-outbreaks signal and has set the match
\* outcome to lost when it returns.
C14_EightOutbreaksLose ==
  [][ /\ outbreaks' >= outbreaks
      /\ (outbreaks < MaxOutbreaks /\ outbreaks' >= MaxOutbreaks)
           => /\ "eightOutbreaks" \in lastCall'.signals
              /\ gameState' = "lost" ]_vars

\* a direct infect call whose cascade has taken the counter to 8 or past it
C14_Witness ==
  /\ lastCall.op = "infect" /\ lastCall.outbreakLog # << >>
  /\ outbreaks >= MaxOutbreaks
  /\ "eightOutbreaks" \in lastCall.signals
  /\ gameState = "lost"

\* C15: an operation that leaves all four colours cured or eradicated, one at
\* least of them having been uncured before it, raises the all-cured signal
\* and the match outcome becomes won.
C15_AllCuredWins ==
  [][ (~areAllDiseasesCured(World) /\ areAllDiseasesCured(World)')
      => /\ "allDiseasesCured" \in lastCall'.signals
         /\ gameState' = "won" ]_vars

\* the cureDisease call that cured the last uncured colour
C15_Witness ==
  /\ lastCall.op = "cureDisease" /\ ~lastCall.threw
  /\ areAllDiseasesCured(World)
  /\ "allDiseasesCured" \in lastCall.signals
  /\ gameState = "won"

\* C16: drawCards(n) on a player draw pile that holds fewer than n cards, made
\* with a hand within the limit and within the turn's draw allowance, does not
\* throw: the match outcome becomes lost, the cards that remained in the pile
\* are added to the player's hand and the pile is left empty.
C16_ShortPileLoses ==
  [][ ( /\ lastCall'.op = "drawCards"
        /\ Len(stacks["playerDraw"]) < lastCall'.n
        /\ ~hasTooManyCards(World, lastCall'.who)
        /\ ~( /\ players[lastCall'.who].playerCardsDrawnInTurn + lastCall'.n
                    > MaxDrawsPerTurn
              /\ players[lastCall'.who].state = "active" ) )
      => /\ ~lastCall'.threw
         /\ "noPlayerCards" \in lastCall'.signals
         /\ gameState' = "lost"
         /\ players'[lastCall'.who].cards
              = players[lastCall'.who].cards \o stacks["playerDraw"]
         /\ stacks'["playerDraw"] = << >> ]_vars

\* a drawCards(2) that found one card left: every player card is in a hand,
\* the caller's hand is the larger one, and the match is lost
C16_Witness ==
  /\ lastCall.op = "drawCards" /\ lastCall.n = 2 /\ ~lastCall.threw
  /\ "noPlayerCards" \in lastCall.signals
  /\ gameState = "lost"
  /\ stacks["playerDraw"] = << >>
  /\ Len(players[lastCall.who].cards) = 7
  /\ \E q \in Players : q # lastCall.who /\ Len(players[q].cards) = 5

\* the cards of a pile, each with the number of times it occurs
CardBag(s) ==
  [ c \in SeqToSet(s) |-> Cardinality({ i \in 1..Len(s) : s[i] = c }) ]

\* C17: for every pile of size 0 or more and every n of 1 or more, merging the
\* sub-piles split(n) returned gives a pile with exactly the multiset of cards
\* of the original: no card is lost and none is duplicated.
C17_MergeSplitKeepsCards ==
  [][ ( /\ lastCall.op = "split" /\ ~lastCall.threw
        /\ lastCall'.op = "merge" )
      => CardBag(stacks'["seeded"]) = CardBag(stacks["playerDraw"]) ]_vars

\* a pile of four cards split into two piles and merged again, its cards in
\* another order than before
C17_Witness ==
  /\ lastCall.op = "merge" /\ lastCall.n = 2
  /\ Len(stacks["playerDraw"]) = MaxPileSize
  /\ Len(stacks["seeded"]) = MaxPileSize
  /\ stacks["seeded"] # stacks["playerDraw"]

\* the slices a split into n piles of ceil(size/n) cards is made of
RECURSIVE Flatten(_)
Flatten(ss) == IF Len(ss) = 0 THEN << >> ELSE Head(ss) \o Flatten(Tail(ss))

\* C18: split(n) fails for n below 1; for n of 1 or more and every pile size
\* it returns exactly n sub-piles, each of ceil(size/n) cards except possibly
\* the last, which together hold every card of the source exactly once.
C18_SplitIntoN ==
  [][ lastCall'.op = "split"
      => IF lastCall'.n < 1 THEN lastCall'.threw
         ELSE /\ ~lastCall'.threw
              /\ Len(splitPiles') = lastCall'.n
              /\ \A i \in 1..(Len(splitPiles') - 1) :
                    Len(splitPiles'[i])
                      = CeilDiv(Len(stacks["playerDraw"]), lastCall'.n)
              /\ CardBag(Flatten(splitPiles')) = CardBag(stacks["playerDraw"])
    ]_vars

\* C19: merge(piles) leaves every input pile empty and returns one pile in
\* which the cards of each source keep the order they had in that source,
\* the sources concatenated in argument order.
C19_MergeKeepsOrder ==
  [][ lastCall'.op = "merge"
      => /\ \A i \in 1..Len(splitPiles') : splitPiles'[i] = << >>
         /\ stacks'["seeded"] = Flatten(splitPiles) ]_vars

\* where card c lies in pile s, counted from the bottom; cards are taken from
\* the top, so of two cards the one lying higher is drawn first
Position(s, c) == CHOOSE i \in 1..Len(s) : s[i] = c

\* C20: after a drawCards that drew and resolved an epidemic card, the cards
\* that were in the infection discard pile are drawn before every card that
\* remained in the infection draw pile, and the infection discard pile is
\* empty.
C20_DiscardDrawnFirst ==
  [][ ( /\ lastCall'.op = "drawCards" /\ ~lastCall'.threw
        /\ stacks'["playerDiscard"] # stacks["playerDiscard"] )
      => LET who == lastCall'.who
             discarded == stacks["infectionDiscard"]
             remained == afterTake(stacks[players[who].infectionCardDrawPile], 1)
             combined == stacks'[players'[who].infectionCardDrawPile]
         IN /\ stacks'["infectionDiscard"] = << >>
            /\ \A d \in SeqToSet(discarded), r \in SeqToSet(remained) :
                  Position(combined, d) > Position(combined, r) ]_vars

\* the cubes of all colours on city c
CubesOn(c) ==
  diseaseCubeCount[c]["red"] + diseaseCubeCount[c]["yellow"]
    + diseaseCubeCount[c]["blue"] + diseaseCubeCount[c]["black"]

\* the epidemic cards among s[from..to]
EpidemicsIn(s, from, to) ==
  Cardinality({ i \in from..(IF to > Len(s) THEN Len(s) ELSE to) : IsEpidemic(s[i]) })

\* C21: after start() with 2 players at normal difficulty exactly 9 cards have
\* left the infection draw pile, three cities hold 3 cubes, three hold 2 and
\* three hold 1, and the match's player draw pile is made of 5 consecutive
\* segments (the seeded sub-piles, each one fifth of the pile rounded up plus
\* its epidemic card, the last possibly shorter) with exactly one epidemic
\* card in each.
C21_SetupSeeds ==
  (lastCall.op = "start" /\ ~lastCall.threw)
    => LET pile == stacks[gamePlayerCardDrawPile]
           segment == CeilDiv(Len(pile) - 5, 5) + 1
       IN /\ Len(stacks["infectionDraw"]) = NumCities - 9
          /\ \A k \in 1..3 : Cardinality({ c \in Cities : CubesOn(c) = k }) = 3
          /\ Cardinality({ c \in Cities : CubesOn(c) = 0 }) = NumCities - 9
          /\ Len(pile) > 5
          /\ \A i \in 0..4 :
                EpidemicsIn(pile, i * segment + 1, (i + 1) * segment) = 1
          /\ EpidemicsIn(pile, 1, Len(pile)) = 5

\* the match just started on the full deck: 8 cards dealt, 5 epidemic cards
\* seeded into the rest
C21_Witness ==
  /\ lastCall.op = "start" /\ ~lastCall.threw
  /\ gameState = "in-progress"
  /\ gamePlayerCardDrawPile = "seeded"
  /\ Len(stacks["seeded"]) = SetupDeckSize - 8 + 5
  /\ Len(stacks["epidemic"]) = NumEpidemicCards - 5

\* the operations the Player class counts as actions
ActionOps ==
  { "driveTo", "takeDirectFlightTo", "takeCharterFlightTo", "takeShuttleFlightTo",
    "buildResearchStation", "playerCureDisease", "treatDisease",
    "shareKnowledgeWith", "pass" }

\* C22: an action (drive, direct flight, charter flight, shuttle flight, build
\* station, cure, treat, share knowledge, pass) invoked once 4 actions have
\* been taken this turn, or while the acting player holds more than 7 cards,
\* fails and changes no game state; the actions-taken counter of no player
\* ever exceeds 4.
C22_ActionsNeedBudget ==
  [][ /\ \A p \in Players : players'[p].movesTakenInTurn <= MAX_ACTIONS_PER_TURN
      /\ lastCall'.op \in ActionOps
           => LET p == lastCall'.who
              IN ( \/ players[p].movesTakenInTurn >= MAX_ACTIONS_PER_TURN
                   \/ Len(players[p].cards) > MaxCardsInHand )
                 => (lastCall'.threw /\ UNCHANGED gameVars) ]_vars

\* an action was refused to the active player, who has actions left this
\* turn but holds 8 cards
C22_Witness ==
  /\ lastCall.op \in ActionOps /\ lastCall.threw
  /\ players[lastCall.who].state = "active"
  /\ players[lastCall.who].movesTakenInTurn < MAX_ACTIONS_PER_TURN
  /\ Len(players[lastCall.who].cards) = MaxCardsInHand + 1

C24_HandWithinLimit ==
  \A p \in Players :
    players[p].state = "inactive" => Len(players[p].cards) <= MaxCardsInHand

\* the cards of colour dt in the hand of player p
HeldOfColour(p, dt) ==
  Cardinality({ i \in 1..Len(players[p].cards) :
                  players[p].cards[i] >= 1 /\ CardColour(players[p].cards[i]) = dt })

\* C25: a player's cureDisease(colour) succeeds only when the player stands
\* on a city with a research station and holds at least 5 cards of the
\* colour (at least 4 for the scientist); when it fails, the colour's state,
\* the player's hand and the player's actions-taken counter are unchanged.
C25_CureNeedsStationAndCards ==
  [][ \A p \in Players :
        (lastCall'.op = "playerCureDisease" /\ lastCall'.who = p)
          => /\ ~lastCall'.threw
                  => /\ hasResearchStation[players[p].location]
                     /\ HeldOfColour(p, lastCall'.dt) >=
                          (IF players[p].role = "scientist" THEN 4 ELSE 5)
             /\ lastCall'.threw
                  => /\ globalDiseaseStates' = globalDiseaseStates
                     /\ players'[p].cards = players[p].cards
                     /\ players'[p].movesTakenInTurn = players[p].movesTakenInTurn ]_vars

\* the scientist, holding 4 red cards at the starting research station, has
\* cured red
C25_Witness ==
  /\ lastCall.op = "playerCureDisease" /\ ~lastCall.threw
  /\ players[lastCall.who].role = "scientist"
  /\ hasResearchStation[players[lastCall.who].location]
  /\ globalDiseaseStates[lastCall.dt] # "uncured"
  /\ HeldOfColour(lastCall.who, lastCall.dt) = 0

\* the number of cities with a research station
StationsStanding == Cardinality({ c \in Cities : hasResearchStation[c] })

\* C26: at most 7 cities have a research station (the starting one and 6
\* built); with 7 standing, buildResearchStation fails and changes no station
\* unless a city that has a station is nominated, and when it succeeds the
\* nominated city has lost its station and the player's city has one.
C26_StationLimit ==
  [][ /\ StationsStanding' <= 7
      /\ \A p \in Players :
           (lastCall'.op = "buildResearchStation" /\ lastCall'.who = p /\ StationsStanding >= 7)
             => LET replaceCity == lastCall'.city
                    location == players[p].location
                    nominated == replaceCity # 0 /\ hasResearchStation[replaceCity]
                IN /\ ~nominated => (lastCall'.threw /\ UNCHANGED hasResearchStation)
                   /\ ~lastCall'.threw
                        => /\ nominated
                           /\ hasResearchStation'[location]
                           /\ replaceCity # location => ~hasResearchStation'[replaceCity] ]_vars

\* with 7 stations standing a station was built on an eighth city in exchange
\* for the one on city 1
C26_Witness ==
  /\ lastCall.op = "buildResearchStation" /\ ~lastCall.threw
  /\ lastCall.city = 1 /\ ~hasResearchStation[1]
  /\ hasResearchStation[players[lastCall.who].location]
  /\ StationsStanding = 7

\* C27: the outbreak counter always lies within 0..8.
C27_OutbreaksWithinEight == outbreaks \in 0..8

\* C29: infect on a colour that is eradicated is a no-op: the cube counts and
\* infected flags of every city, the global cube counts and the outbreak
\* counter are unchanged, and no outbreak or loss signal is raised.
C29_InfectEradicatedNoOp ==
  [][ ( /\ lastCall'.op = "infect"
        /\ lastCall'.dt \in DiseaseTypes
        /\ globalDiseaseStates[lastCall'.dt] = "eradicated" )
      => /\ UNCHANGED << diseaseCubeCount, diseases, globalDiseaseCubeCounts,
                         outbreaks, gameState >>
         /\ lastCall'.signals = {}
         /\ lastCall'.outbreakLog = << >>
         /\ ~lastCall'.threw ]_vars

\* infect has returned for a colour that is eradicated
C29_Witness ==
  /\ lastCall.op = "infect" /\ ~lastCall.threw
  /\ lastCall.dt \in DiseaseTypes
  /\ globalDiseaseStates[lastCall.dt] = "eradicated"
  /\ diseaseCubeCount[lastCall.city][lastCall.dt] = 0

\* the infection rate: the entry of the sequence at the current step
InfectionRateNow == infectionRateSequence[infectionRateStep + 1]

\* C28: an epidemicAt call raises the infection-rate step by exactly one, or
\* leaves it at 6, the last index of the sequence 2,2,2,3,3,4,4, when it is
\* there already; no other operation changes the step; the infection rate is
\* always 2, 3 or 4 and never decreases.
C28_RateStepAdvances ==
  [][ /\ infectionRateStep' =
           IF lastCall'.op = "epidemicAt"
           THEN (IF infectionRateStep < 6 THEN infectionRateStep + 1 ELSE 6)
           ELSE infectionRateStep
      /\ InfectionRateNow' \in {2, 3, 4}
      /\ InfectionRateNow' >= InfectionRateNow ]_vars

\* a seventh epidemicAt has found the step at the last index and left it there
C28_Witness ==
  /\ lastCall.op = "epidemicAt"
  /\ calls = 7
  /\ infectionRateStep = 6
  /\ InfectionRateNow = 4

\* the smaller of two numbers
Smaller(a, b) == IF a < b THEN a ELSE b

\* C30: a drawInfectionCards by a player who has not drawn infection cards
\* takes as many cards from the player's infection draw pile as the infection
\* rate says (all of the pile when it holds fewer), leaves the city of each
\* card taken infected with the card's colour, with one cube more unless it
\* held 3, puts the cards taken on the infection discard pile and enables
\* endTurn; a drawInfectionCards by a player who has drawn already fails and
\* changes no game state.
C30_InfectionDraw ==
  [][ \A p \in Players :
        (lastCall'.op = "drawInfectionCards" /\ lastCall'.who = p)
          => IF players[p].hasDrawnInfectionCards
             THEN lastCall'.threw /\ UNCHANGED gameVars
             ELSE LET pile == players[p].infectionCardDrawPile
                      k == Smaller(InfectionRateNow, Len(stacks[pile]))
                      taken == take(stacks[pile], k)
                  IN /\ ~lastCall'.threw
                     /\ stacks'[pile] = afterTake(stacks[pile], k)
                     /\ CardBag(stacks'["infectionDiscard"]) =
                          CardBag(stacks["infectionDiscard"] \o taken)
                     /\ \A i \in 1..k :
                          globalDiseaseStates[CardColour(taken[i])] # "eradicated"
                            => /\ CardColour(taken[i]) \in diseases'[taken[i]]
                               /\ diseaseCubeCount'[taken[i]][CardColour(taken[i])] >=
                                    Smaller(diseaseCubeCount[taken[i]][CardColour(taken[i])] + 1, 3)
                     /\ players'[p].hasDrawnInfectionCards ]_vars

\* C31: the match and every player refer to one and the same infection draw
\* pile, also after a player's drawCards has resolved an epidemic and
\* recycled the infection discard pile: no holder is left with a pile other
\* than the one the drawing player draws from.
C31_OneInfectionDrawPile ==
  \A p \in Players : players[p].infectionCardDrawPile = gameInfectionCardDrawPile

\* C32: after start() the pile the players' drawCards takes from (the pile
\* object the players were constructed with) is the match's epidemic-seeded
\* draw pile and holds the epidemic cards seeded into it, 5 at normal
\* difficulty.
C32_PlayersDrawSeededPile ==
  (lastCall.op = "start" /\ ~lastCall.threw)
    => /\ gamePlayerCardDrawPile = "playerDraw"
       /\ EpidemicsIn(stacks["playerDraw"], 1, Len(stacks["playerDraw"])) = 5

\* C33: a card lies in one pile at a time: after split(n) has returned, no
\* card that was placed in a sub-pile is still in the source pile.
C33_SplitConsumesSource ==
  [][ (lastCall'.op = "split" /\ ~lastCall'.threw)
      => SeqToSet(Flatten(splitPiles')) \cap SeqToSet(stacks'["playerDraw"]) = {} ]_vars

\* the outcomes that end a match
FinalStates == {"won", "lost", "abandoned"}

\* C34: once the match's outcome is won, lost or abandoned no operation
\* changes it and no player becomes active.
C34_OutcomeIsFinal ==
  [][ (gameState \in FinalStates)
      => /\ gameState' = gameState
         /\ \A p \in Players :
              (players'[p].state = "active" => players[p].state = "active") ]_vars

\* C35: while the match is in progress at most one player has state active,
\* after any sequence of player operations.
ActivePlayers == { p \in Players : players[p].state = "active" }

C35_OneActivePlayer ==
  gameState = "in-progress" => Cardinality(ActivePlayers) <= 1

\* C36: for every colour the global cube count of the disease engine equals
\* the sum of that colour's cube counts over all cities.
RECURSIVE CubesOnCities(_, _)
CubesOnCities(dt, c) ==
  IF c = 0 THEN 0 ELSE diseaseCubeCount[c][dt] + CubesOnCities(dt, c - 1)

C36_GlobalCountIsSum ==
  \A dt \in DiseaseTypes : globalDiseaseCubeCounts[dt] = CubesOnCities(dt, NumCities)

\* C37: whenever a colour's state is eradicated no city holds a cube of it.
C37_EradicatedMeansNoCubes ==
  \A dt \in DiseaseTypes :
    globalDiseaseStates[dt] = "eradicated"
      => \A c \in Cities : diseaseCubeCount[c][dt] <= 0

\* C38: no infection card is ever lost: every infection card is in an
\* infection draw pile (the match's, or the one a player draws from) or in
\* the infection discard pile.
InfectionPiles == { players[p].infectionCardDrawPile : p \in Players }
                    \cup {gameInfectionCardDrawPile, "infectionDiscard"}

C38_NoInfectionCardLost ==
  \A card \in 1..NumCities : \E id \in InfectionPiles : card \in SeqToSet(stacks[id])

\* C39: every player card is in exactly one of the player draw pile, one
\* player's hand and the player discard pile.
Occurrences(seq, card) == Len(SelectSeq(seq, LAMBDA x : x = card))

RECURSIVE InHands(_, _)
InHands(card, p) ==
  IF p = 0 THEN 0 ELSE Occurrences(players[p].cards, card) + InHands(card, p - 1)

C39_EachCardInOnePlace ==
  \A card \in 1..NumPlayerCards :
    Occurrences(stacks["playerDraw"], card) + InHands(card, Len(players))
      + Occurrences(stacks["playerDiscard"], card) = 1

\* C40: a player operation that fails with an error leaves the whole game
\* state as it was before the call.
C40_FailureChangesNothing ==
  [][ (lastCall'.threw /\ lastCall'.who \in Players) => UNCHANGED gameVars ]_vars

=============================================================================
